---- MODULE Spec2Model ----
(***************************************************************************)
(* The MatchingEnums SDL validation rule of the federation composer        *)
(* (federation-js/src/composition/validate/sdl/matchingEnums.ts).          *)
(*                                                                         *)
(* One call of MatchingEnums(context) reads the definitions of the         *)
(* composed document, groups them by type name, and reports one            *)
(* ENUM_MISMATCH or ENUM_MISMATCH_TYPE error per inconsistent type name to *)
(* the validation context.  The model keeps the JavaScript behaviour that  *)
(* decides the outcome: objects used as maps (own keys in insertion order, *)
(* lookups that fall through to Object.prototype), truthiness tests,       *)
(* Array.prototype.sort/join, and the string conversion of array elements. *)
(***************************************************************************)
EXTENDS Naturals, Sequences, FiniteSets, TLC

\* ------------------------------------------------------------------ bounds

\* Largest number of type definitions in one composed document.
MaxDefs == 3

\* ------------------------------------------------------------- the document

ENUM_TYPE_DEFINITION == "EnumTypeDefinition"
OBJECT_TYPE_DEFINITION == "ObjectTypeDefinition"

\* The JavaScript value undefined, as a template literal prints it.
Undefined == "undefined"

\* The documents checked are drawn from these nodes.  All names are GraphQL
\* names; "constructor" and "toString" are also properties that every
\* JavaScript object inherits.  The type Color comes in every shape; Status
\* and constructor in a few, to have several type names in one document.
ServiceNames == {"A", "B"}

\* The value lists an enum definition may declare (in declaration order).
EnumValueLists ==
  { <<>>, <<"RED">>, <<"RED", "BLUE">>, <<"BLUE", "RED">>, <<"RED", "RED">>,
    <<"toString">> }

\* A definition node is a record; an absent property is an absent field.
\* Enum definitions: with or without serviceName, with or without values.
EnumNodes ==
  { [kind |-> ENUM_TYPE_DEFINITION, name |-> "Color", serviceName |-> s, values |-> v] :
      s \in ServiceNames, v \in EnumValueLists }
  \cup
  { [kind |-> ENUM_TYPE_DEFINITION, name |-> "Color", serviceName |-> s] :
      s \in ServiceNames }
  \cup
  { [kind |-> ENUM_TYPE_DEFINITION, name |-> "Color", values |-> v] :
      v \in {<<"RED">>, <<"toString">>} }
  \cup
  { [kind |-> ENUM_TYPE_DEFINITION, name |-> "Status", serviceName |-> "A", values |-> v] :
      v \in {<<"RED">>, <<"RED", "BLUE">>} }
  \cup
  { [kind |-> ENUM_TYPE_DEFINITION, name |-> "constructor", serviceName |-> "A",
     values |-> <<"RED">>] }

\* Definitions of another kind (an object type): with or without serviceName.
OtherNodes ==
  { [kind |-> OBJECT_TYPE_DEFINITION, name |-> "Color", serviceName |-> s] :
      s \in ServiceNames }
  \cup
  { [kind |-> OBJECT_TYPE_DEFINITION, name |-> "Color"] }
  \cup
  { [kind |-> OBJECT_TYPE_DEFINITION, name |-> "Status", serviceName |-> "B"] }

Nodes == EnumNodes \cup OtherNodes

Documents == UNION { [1..n -> Nodes] : n \in 0..MaxDefs }

\* ------------------------------------------------------------------- state

VARIABLES
  definitions,        \* context.getDocument().definitions, the input nodes
  pc,                 \* "group", "scan", "done", or "thrown" (a TypeError left the rule)
  definitionsByName,  \* own entries of the grouping object, in insertion order
  g,                  \* position of the for loop in Object.entries(definitionsByName)
  matchingEnumGroups, \* the signature groups built by the last iteration (none: <<>>)
  errors,             \* what context.reportError received, in order
  run,                \* 1 in the first call of the rule, 2 in a repeated call
  firstRun            \* how the first call ended and what it reported, once it is repeated

vars == <<definitions, pc, definitionsByName, g, matchingEnumGroups, errors, run,
          firstRun>>

\* ------------------------------------------------------- JavaScript helpers

\* UTF-16 code units of the enum value names: Array.prototype.sort without a
\* comparator orders strings by their code units.
CodeUnits(s) ==
  CASE s = "RED" -> <<82, 69, 68>>
    [] s = "BLUE" -> <<66, 76, 85, 69>>
    [] s = "toString" -> <<116, 111, 83, 116, 114, 105, 110, 103>>

RECURSIVE SeqLess(_, _)
SeqLess(a, b) ==
  IF b = <<>> THEN FALSE
  ELSE IF a = <<>> THEN TRUE
  ELSE IF Head(a) # Head(b) THEN Head(a) < Head(b)
  ELSE SeqLess(Tail(a), Tail(b))

StringLess(s, t) == SeqLess(CodeUnits(s), CodeUnits(t))

RECURSIVE Insert(_, _)
Insert(x, sorted) ==
  IF sorted = <<>> THEN <<x>>
  ELSE IF StringLess(x, Head(sorted)) THEN <<x>> \o sorted
  ELSE <<Head(sorted)>> \o Insert(x, Tail(sorted))

\* A faulty sort, which leaves the array as it is.
SortNothing(arr) == arr

\* array.sort() on an array of strings
RECURSIVE Sort(_)
Sort(arr) == IF arr = <<>> THEN <<>> ELSE Insert(Head(arr), Sort(Tail(arr)))

\* array.join(separator) on an array of strings
RECURSIVE Join(_, _)
Join(arr, sep) ==
  IF arr = <<>> THEN ""
  ELSE IF Len(arr) = 1 THEN arr[1]
  ELSE arr[1] \o sep \o Join(Tail(arr), sep)

\* The properties an object literal {} inherits from Object.prototype.
ObjectPrototypeKeys ==
  { "constructor", "toString", "toLocaleString", "valueOf", "hasOwnProperty",
    "isPrototypeOf", "propertyIsEnumerable", "__proto__", "__defineGetter__",
    "__defineSetter__", "__lookupGetter__", "__lookupSetter__" }

HasOwn(map, key) == \E e \in 1..Len(map) : map[e].key = key
OwnIndex(map, key) == CHOOSE e \in 1..Len(map) : map[e].key = key


\* `obj.field &&`: the property is present and, for a string, not empty.
HasProperty(node, field) == field \in DOMAIN node
Truthy(node, field) == HasProperty(node, field) /\ node[field] # ""

\* A caught-or-not result of a step that may throw a TypeError.
Returned(map) == [threw |-> FALSE, map |-> map]
TypeError == [threw |-> TRUE, map |-> <<>>]

\* --------------------------------------------------------- grouping by name

\* The reducer: `typeToDefinitionsMap[name]` is truthy for an own entry and
\* for an inherited property; only an own entry is an array with push.
\* k is the position of the node in the document (the node's identity).
PushDefinition(doc, typeToDefinitionsMap, k) ==
  LET name == doc[k].name IN
  IF HasOwn(typeToDefinitionsMap, name)
    THEN Returned([typeToDefinitionsMap EXCEPT
                     ![OwnIndex(typeToDefinitionsMap, name)].items = Append(@, k)])
  ELSE IF name \in ObjectPrototypeKeys
    THEN TypeError
  ELSE Returned(Append(typeToDefinitionsMap, [key |-> name, items |-> <<k>>]))

\* definitions.reduce(..., {}) from position k on
RECURSIVE ReduceFrom(_, _, _)
ReduceFrom(doc, acc, k) ==
  IF k > Len(doc) THEN Returned(acc)
  ELSE LET r == PushDefinition(doc, acc, k) IN
       IF r.threw THEN r ELSE ReduceFrom(doc, r.map, k + 1)

GroupByName(doc) == ReduceFrom(doc, <<>>, 1)

\* ------------------------------------------------------------ classification

isEnumDefinition(node) == node.kind = ENUM_TYPE_DEFINITION

EveryIsEnum(doc, group) == \A j \in 1..Len(group) : isEnumDefinition(doc[group[j]])
SomeIsEnum(doc, group) == \E j \in 1..Len(group) : isEnumDefinition(doc[group[j]])

\* ------------------------------------------------- the enum values of a type

\* A faulty variant that keeps the node's own values array (`values: values`).
ValueNamesAliased(doc, k) == [alias |-> TRUE, items |-> doc[k].values]

\* `values.map(enumValue => enumValue.name.value)`: a new array holding the
\* names; alias says whether the array is the node's own values array.
ValueNames(doc, k) == [alias |-> FALSE, items |-> doc[k].values]

HasServiceAndValues(node) == Truthy(node, "serviceName") /\ HasProperty(node, "values")

\* simpleEnumDefs after the first loop: one entry per definition that has a
\* serviceName and values; nodes refers to the node's values array.
BuildSimpleEnumDefs(doc, group) ==
  LET kept == SelectSeq(group, LAMBDA k : HasServiceAndValues(doc[k])) IN
  [j \in 1..Len(kept) |->
     [serviceName |-> doc[kept[j]].serviceName,
      values |-> ValueNames(doc, kept[j]),
      nodes |-> kept[j]]]

\* `definition.values = definition.values.sort()`: sorts the array in place
SortValues(simpleEnumDefs) ==
  [j \in 1..Len(simpleEnumDefs) |->
     [simpleEnumDefs[j] EXCEPT !.values.items = Sort(@)]]

\* The document after the sort: a node's values array changes only if the
\* sorted array is that very array.
DocumentAfterSort(doc, sortedDefs) ==
  [k \in 1..Len(doc) |->
     IF \E j \in 1..Len(sortedDefs) :
          sortedDefs[j].nodes = k /\ sortedDefs[j].values.alias
       THEN [doc[k] EXCEPT !.values = Sort(@)]
       ELSE doc[k]]

\* `definition.values.join()`: the signature of a definition
SignatureKey(definition) == Join(definition.values.items, ",")

\* A faulty variant that overwrites the group of a signature seen before.
PushServiceReplacing(groups, definition) ==
  LET key == Join(definition.values.items, ",")
      serviceWithNodes == [serviceName |-> definition.serviceName,
                           nodes |-> definition.nodes]
  IN
  IF HasOwn(groups, key)
    THEN [threw |-> FALSE,
          map |-> [groups EXCEPT ![OwnIndex(groups, key)].items = <<serviceWithNodes>>]]
  ELSE IF key \in ObjectPrototypeKeys
    THEN [threw |-> TRUE, map |-> <<>>]
  ELSE [threw |-> FALSE,
        map |-> Append(groups, [key |-> key, items |-> <<serviceWithNodes>>])]

\* One step of the loop that builds matchingEnumGroups.
PushService(groups, definition) ==
  LET key == SignatureKey(definition)
      serviceWithNodes == [serviceName |-> definition.serviceName,
                           nodes |-> definition.nodes]
  IN
  IF HasOwn(groups, key)
    THEN Returned([groups EXCEPT ![OwnIndex(groups, key)].items =
                                    Append(@, serviceWithNodes)])
  ELSE IF key \in ObjectPrototypeKeys
    THEN TypeError
  ELSE Returned(Append(groups, [key |-> key, items |-> <<serviceWithNodes>>]))

RECURSIVE BuildGroupsFrom(_, _, _)
BuildGroupsFrom(simpleEnumDefs, acc, j) ==
  IF j > Len(simpleEnumDefs) THEN Returned(acc)
  ELSE LET r == PushService(acc, simpleEnumDefs[j]) IN
       IF r.threw THEN r ELSE BuildGroupsFrom(simpleEnumDefs, r.map, j + 1)

BuildMatchingEnumGroups(simpleEnumDefs) == BuildGroupsFrom(simpleEnumDefs, <<>>, 1)

\* String(x) of an element of a signature group: the element is a plain
\* object { serviceName, nodes }, which Array.prototype.join converts with
\* Object.prototype.toString.
ElementToString(serviceWithNodes) == "[object Object]"

\* `[${serviceNames.join(', ')}]` for one signature group
GroupText(items) ==
  "[" \o Join([j \in 1..Len(items) |-> ElementToString(items[j])], ", ") \o "]"

\* The error reported for an all-enum type with more than one signature.
EnumMismatch(name, groups) ==
  [code |-> "ENUM_MISMATCH",
   impactedServices |-> {},
   name |-> name,
   text |-> Join([e \in 1..Len(groups) |-> GroupText(groups[e].items)], ", ")]

\* ---------------------------------------------------- the kind of a type

\* isString(x): undefined is dropped, every string (also "") is kept
isString(node) == HasProperty(node, "serviceName")

\* A faulty variant without `.filter(isString)`: undefined stays in the list.
ServiceNamesOfUnfiltered(doc, group) ==
  [j \in 1..Len(group) |->
     IF "serviceName" \in DOMAIN doc[group[j]]
       THEN doc[group[j]].serviceName
       ELSE "undefined"]

ServiceNamesOf(doc, group) ==
  LET kept == SelectSeq(group, LAMBDA k : isString(doc[k])) IN
  [j \in 1..Len(kept) |-> doc[kept[j]].serviceName]

\* definitions.filter(isEnumDefinition).map(d => d.serviceName).filter(isString)
ServicesWithEnum(doc, group) ==
  ServiceNamesOf(doc, SelectSeq(group, LAMBDA k : isEnumDefinition(doc[k])))

\* definitions.filter(d => !isEnumDefinition(d)).map(d => d.serviceName).filter(isString)
ServicesWithoutEnum(doc, group) ==
  ServiceNamesOf(doc, SelectSeq(group, LAMBDA k : ~isEnumDefinition(doc[k])))

\* array[0]: undefined on an empty array
FirstElement(arr) == IF Len(arr) >= 1 THEN arr[1] ELSE Undefined

\* The error reported for a type that is an enum in some services only.
\* logged is the service handed to logServiceAndType, whose text opens the
\* message; text is the template literal that follows it.
EnumMismatchType(name, servicesWithEnum, servicesWithoutEnum) ==
  [code |-> "ENUM_MISMATCH_TYPE",
   impactedServices |-> {},
   name |-> name,
   logged |-> FirstElement(servicesWithEnum),
   text |-> name \o " is an enum in [" \o Join(servicesWithEnum, ", ")
            \o "], but not in [" \o Join(servicesWithoutEnum, ", ") \o "]"]


\* ----------------------------------------------------------------- actions

Init ==
  /\ definitions \in Documents
  /\ pc = "group"
  /\ definitionsByName = <<>>
  /\ g = 1
  /\ matchingEnumGroups = <<>>
  /\ errors = <<>>
  /\ run = 1
  /\ firstRun = [pc |-> "none", errors |-> <<>>]

\* The reduce that groups all definitions by name.
GroupDefinitions ==
  /\ pc = "group"
  /\ LET r == GroupByName(definitions) IN
       /\ ~r.threw
       /\ definitionsByName' = r.map
  /\ pc' = "scan"
  /\ g' = 1
  /\ UNCHANGED <<definitions, matchingEnumGroups, errors, run, firstRun>>

\* The reduce meets a name that {} inherits: push is not a function.
GroupDefinitionsThrows ==
  /\ pc = "group"
  /\ GroupByName(definitions).threw
  /\ pc' = "thrown"
  /\ UNCHANGED <<definitions, definitionsByName, g, matchingEnumGroups, errors, run,
                 firstRun>>

InLoop == pc = "scan" /\ g <= Len(definitionsByName)

\* One iteration of the for loop, every definition of the name being an enum.
CheckEnumValues ==
  /\ InLoop
  /\ LET name == definitionsByName[g].key
         group == definitionsByName[g].items
         sortedDefs == SortValues(BuildSimpleEnumDefs(definitions, group))
         r == BuildMatchingEnumGroups(sortedDefs)
     IN
       /\ EveryIsEnum(definitions, group)
       /\ ~r.threw
       /\ definitions' = DocumentAfterSort(definitions, sortedDefs)
       /\ matchingEnumGroups' = r.map
       /\ errors' = IF Len(r.map) > 1
                      THEN Append(errors, EnumMismatch(name, r.map))
                      ELSE errors
  /\ g' = g + 1
  /\ UNCHANGED <<pc, definitionsByName, run, firstRun>>

\* The same iteration when a signature is a name that {} inherits.
CheckEnumValuesThrows ==
  /\ InLoop
  /\ LET group == definitionsByName[g].items
         sortedDefs == SortValues(BuildSimpleEnumDefs(definitions, group))
     IN
       /\ EveryIsEnum(definitions, group)
       /\ BuildMatchingEnumGroups(sortedDefs).threw
       /\ definitions' = DocumentAfterSort(definitions, sortedDefs)
  /\ pc' = "thrown"
  /\ UNCHANGED <<definitionsByName, g, matchingEnumGroups, errors, run, firstRun>>

\* One iteration of the for loop, only some definitions of the name being enums.
ReportKindMismatch ==
  /\ InLoop
  /\ LET name == definitionsByName[g].key
         group == definitionsByName[g].items
     IN
       /\ ~EveryIsEnum(definitions, group)
       /\ SomeIsEnum(definitions, group)
       /\ errors' = Append(errors,
                           EnumMismatchType(name,
                                            ServicesWithEnum(definitions, group),
                                            ServicesWithoutEnum(definitions, group)))
  /\ g' = g + 1
  /\ matchingEnumGroups' = <<>>
  /\ UNCHANGED <<definitions, pc, definitionsByName, run, firstRun>>

\* One iteration of the for loop, no definition of the name being an enum.
SkipGroup ==
  /\ InLoop
  /\ ~SomeIsEnum(definitions, definitionsByName[g].items)
  /\ g' = g + 1
  /\ matchingEnumGroups' = <<>>
  /\ UNCHANGED <<definitions, pc, definitionsByName, errors, run, firstRun>>

\* The loop is over: the rule returns its (empty) visitor.
Finish ==
  /\ pc = "scan"
  /\ g > Len(definitionsByName)
  /\ pc' = "done"
  /\ UNCHANGED <<definitions, definitionsByName, g, matchingEnumGroups, errors, run,
                 firstRun>>

\* The rule is called once more on the same document, with a new context.
Rerun ==
  /\ pc \in {"done", "thrown"}
  /\ run = 1
  /\ run' = 2
  /\ firstRun' = [pc |-> pc, errors |-> errors]
  /\ pc' = "group"
  /\ definitionsByName' = <<>>
  /\ g' = 1
  /\ matchingEnumGroups' = <<>>
  /\ errors' = <<>>
  /\ UNCHANGED definitions

Next ==
  \/ GroupDefinitions
  \/ GroupDefinitionsThrows
  \/ CheckEnumValues
  \/ CheckEnumValuesThrows
  \/ ReportKindMismatch
  \/ SkipGroup
  \/ Finish

Spec == Init /\ [][Next]_vars

NextTwice == Next \/ Rerun

SpecTwice == Init /\ [][NextTwice]_vars


\* ------------------------------------------- what the claims are stated with
\* (stated on the document itself, not with the operators of the rule)

Terminated == pc \in {"done", "thrown"}

Positions(doc) == [k \in 1..Len(doc) |-> k]
PositionsOf(doc, name) == SelectSeq(Positions(doc), LAMBDA k : doc[k].name = name)
NamesIn(doc) == { doc[k].name : k \in 1..Len(doc) }
Range(seq) == { seq[j] : j \in 1..Len(seq) }

IsEnum(doc, k) == doc[k].kind = ENUM_TYPE_DEFINITION
AllEnum(doc, name) == \A k \in Range(PositionsOf(doc, name)) : IsEnum(doc, k)
MixedKind(doc, name) ==
  /\ \E k \in Range(PositionsOf(doc, name)) : IsEnum(doc, k)
  /\ \E k \in Range(PositionsOf(doc, name)) : ~IsEnum(doc, k)

HasService(doc, k) == "serviceName" \in DOMAIN doc[k]
HasValues(doc, k) == "values" \in DOMAIN doc[k]
\* the fragments that enter the comparison of values
Compared(doc, name) ==
  SelectSeq(PositionsOf(doc, name), LAMBDA k : HasService(doc, k) /\ HasValues(doc, k))

Occurrences(seq, x) == Cardinality({ j \in 1..Len(seq) : seq[j] = x })
SameSet(v, w) == Range(v) = Range(w)
\* the same names, each as often: v is a permutation of w
SameBag(v, w) ==
  /\ SameSet(v, w)
  /\ \A x \in Range(v) : Occurrences(v, x) = Occurrences(w, x)

SameValues(doc, k1, k2) == SameBag(doc[k1].values, doc[k2].values)

HasValueMismatch(doc, name) ==
  \E k1, k2 \in Range(Compared(doc, name)) : ~SameValues(doc, k1, k2)

ErrorsOf(code, name) ==
  { i \in 1..Len(errors) : errors[i].code = code /\ errors[i].name = name }

ServiceList(doc, positions) ==
  "[" \o Join([j \in 1..Len(positions) |-> doc[positions[j]].serviceName], ", ") \o "]"

\* the compared fragments whose value set no earlier compared fragment has
FirstSeen(doc, name) ==
  SelectSeq(Compared(doc, name),
            LAMBDA k : \A e \in Range(Compared(doc, name)) :
                          e < k => ~SameValues(doc, e, k))

\* the bracketed groups of service names, in the order the value sets were first seen
ExpectedGroupsText(doc, name) ==
  LET firsts == FirstSeen(doc, name) IN
  Join([f \in 1..Len(firsts) |->
          ServiceList(doc, SelectSeq(Compared(doc, name),
                                     LAMBDA k : SameValues(doc, firsts[f], k)))],
       ", ")

ExpectedKindText(doc, name) ==
  name \o " is an enum in "
  \o ServiceList(doc, SelectSeq(PositionsOf(doc, name),
                                LAMBDA k : IsEnum(doc, k) /\ HasService(doc, k)))
  \o ", but not in "
  \o ServiceList(doc, SelectSeq(PositionsOf(doc, name),
                                LAMBDA k : ~IsEnum(doc, k) /\ HasService(doc, k)))

\* ------------------------------------------------------------------ claims

\* C1: when the rule has ended, every type name whose definitions are all
\* enums has exactly one ENUM_MISMATCH error if two of its compared
\* fragments (service name and value list present) differ in their sorted
\* values, and no error at all otherwise.
C1_EnumMismatchIffValuesDiffer ==
  Terminated =>
    \A name \in NamesIn(definitions) :
      AllEnum(definitions, name) =>
        /\ Cardinality(ErrorsOf("ENUM_MISMATCH", name)) =
             (IF HasValueMismatch(definitions, name) THEN 1 ELSE 0)
        /\ ErrorsOf("ENUM_MISMATCH_TYPE", name) = {}

\* C2: the message of every ENUM_MISMATCH error lists, per distinct
\* signature in first-seen order, the bracketed service names of the
\* fragments with that signature in input order.
C2_MessageListsServiceGroups ==
  \A i \in 1..Len(errors) :
    errors[i].code = "ENUM_MISMATCH" =>
      errors[i].text = ExpectedGroupsText(definitions, errors[i].name)

\* C3: when the rule has ended, every type name has exactly one
\* ENUM_MISMATCH_TYPE error if it is an enum in some definitions and not in
\* others, and none otherwise; the message names the type and lists the
\* services with the enum and those without, each in input order.
C3_KindMismatchIffMixed ==
  Terminated =>
    \A name \in NamesIn(definitions) :
      /\ Cardinality(ErrorsOf("ENUM_MISMATCH_TYPE", name)) =
           (IF MixedKind(definitions, name) THEN 1 ELSE 0)
      /\ \A i \in ErrorsOf("ENUM_MISMATCH_TYPE", name) :
           errors[i].text = ExpectedKindText(definitions, name)


\* The positions of the fragments held by the signature groups of the state.
GroupedNodes ==
  UNION { { matchingEnumGroups[e].items[j].nodes :
              j \in 1..Len(matchingEnumGroups[e].items) } :
          e \in 1..Len(matchingEnumGroups) }
InOneGroup(k1, k2) ==
  \E e \in 1..Len(matchingEnumGroups) :
    \E i, j \in 1..Len(matchingEnumGroups[e].items) :
      /\ matchingEnumGroups[e].items[i].nodes = k1
      /\ matchingEnumGroups[e].items[j].nodes = k2

\* C4 as claimed: two fragments whose value lists hold the same set of
\* names, whatever their order and length, have one signature and so fall
\* into one signature group.
C4_SameSetSameSignature ==
  \A k1, k2 \in GroupedNodes :
    SameSet(definitions[k1].values, definitions[k2].values) => InOneGroup(k1, k2)

\* C4 amended: two fragments whose value lists are permutations of one
\* another (the same names, each as often) have one signature and so fall
\* into one signature group, whatever the declared order.
C4_PermutationSameSignature ==
  \A k1, k2 \in GroupedNodes :
    SameValues(definitions, k1, k2) => InOneGroup(k1, k2)

\* Two fragments that declare the same values in different orders share a group.
C4_Witness ==
  \E k1, k2 \in GroupedNodes :
    /\ definitions[k1].values # definitions[k2].values
    /\ SameValues(definitions, k1, k2)
    /\ InOneGroup(k1, k2)

\* The type name the signature groups of the state were built for.
GroupedName == definitionsByName[g - 1].key
MismatchReported ==
  /\ Len(matchingEnumGroups) > 1
  /\ errors # <<>>
  /\ errors[Len(errors)].code = "ENUM_MISMATCH"
  /\ errors[Len(errors)].name = GroupedName
GroupedServices ==
  UNION { { matchingEnumGroups[e].items[j].serviceName :
              j \in 1..Len(matchingEnumGroups[e].items) } :
          e \in 1..Len(matchingEnumGroups) }

\* C5 as claimed: when an ENUM_MISMATCH error is reported for a type name,
\* the services of its signature groups are exactly the services that
\* contributed an enum definition of that name.
C5_GroupsCoverEnumServices ==
  Len(matchingEnumGroups) > 1 =>
    /\ MismatchReported
    /\ GroupedServices =
         { definitions[k].serviceName :
             k \in { p \in Range(PositionsOf(definitions, GroupedName)) :
                       IsEnum(definitions, p) /\ HasService(definitions, p) } }

\* C5 amended: when an ENUM_MISMATCH error is reported for a type name, the
\* services of its signature groups are exactly the services of the
\* definitions of that name that have both a service name and a value list.
C5_GroupsCoverComparedServices ==
  Len(matchingEnumGroups) > 1 =>
    /\ MismatchReported
    /\ GroupedServices =
         { definitions[k].serviceName : k \in Range(Compared(definitions, GroupedName)) }

\* A mismatch is reported while one service's enum definition has no value list.
C5_Witness ==
  /\ MismatchReported
  /\ \E k \in Range(PositionsOf(definitions, GroupedName)) :
       HasService(definitions, k) /\ ~HasValues(definitions, k)


\* The positions each signature group holds, group by group.
GroupedPositions ==
  [e \in 1..Len(matchingEnumGroups) |->
     [j \in 1..Len(matchingEnumGroups[e].items) |-> matchingEnumGroups[e].items[j].nodes]]

\* The partition of the compared fragments of a name by their values, in
\* first-seen order.
ExpectedPositions(doc, name) ==
  LET firsts == FirstSeen(doc, name) IN
  [f \in 1..Len(firsts) |->
     SelectSeq(Compared(doc, name), LAMBDA k : SameValues(doc, firsts[f], k))]

\* A fragment that lacks a service name, or is an enum without a value list.
Malformed(doc, k) == ~HasService(doc, k) \/ (IsEnum(doc, k) /\ ~HasValues(doc, k))
WellFormedOf(doc, name) == SelectSeq(PositionsOf(doc, name), LAMBDA k : ~Malformed(doc, k))

\* What throws: a type name, or the lone value of a compared fragment, that
\* is a property inherited from Object.prototype.
ThrowingName(doc) == \E k \in 1..Len(doc) : doc[k].name \in ObjectPrototypeKeys
ThrowingValues(doc, name) ==
  \E k \in Range(Compared(doc, name)) :
    Len(doc[k].values) = 1 /\ doc[k].values[1] \in ObjectPrototypeKeys

\* No signature group holds a fragment without service name or value list,
\* and the signature groups built for an all-enum name are those of its
\* compared fragments alone.
SkippedInComparison ==
  /\ \A k \in GroupedNodes : HasService(definitions, k) /\ HasValues(definitions, k)
  /\ (g > 1 /\ g - 1 <= Len(definitionsByName) /\ AllEnum(definitions, GroupedName)) =>
       GroupedPositions = ExpectedPositions(definitions, GroupedName)

\* A TypeError comes from an inherited name only, never from a skipped fragment.
SkippedNeverThrows ==
  pc = "thrown" =>
    IF definitionsByName = <<>>
      THEN ThrowingName(definitions)
      ELSE ThrowingValues(definitions, definitionsByName[g].key)

\* C6 as claimed: a fragment without a service name, and an enum fragment
\* without a value list, is skipped: it is in no signature group and in no
\* list of an ENUM_MISMATCH_TYPE message, it never makes the run fail, and
\* the other fragments of its type name are treated as if it were absent.
C6_MalformedSkippedEverywhere ==
  /\ SkippedInComparison
  /\ SkippedNeverThrows
  /\ \A i \in 1..Len(errors) :
       errors[i].code = "ENUM_MISMATCH_TYPE" =>
         LET wellFormed == WellFormedOf(definitions, errors[i].name) IN
         /\ \E k \in Range(wellFormed) : IsEnum(definitions, k)
         /\ \E k \in Range(wellFormed) : ~IsEnum(definitions, k)
         /\ errors[i].text =
              errors[i].name \o " is an enum in "
              \o ServiceList(definitions,
                             SelectSeq(wellFormed, LAMBDA k : IsEnum(definitions, k)))
              \o ", but not in "
              \o ServiceList(definitions,
                             SelectSeq(wellFormed, LAMBDA k : ~IsEnum(definitions, k)))

\* C6 amended: a fragment without a service name is in no signature group
\* and in no list of an ENUM_MISMATCH_TYPE message; an enum fragment without
\* a value list is in no signature group; what such a fragment lacks never
\* makes the run fail (a TypeError comes only from a type name, or from the
\* signature of a compared fragment, that is an inherited property name);
\* and in an all-enum group the fragments that have both are compared as if
\* the others were absent.  (An enum fragment that lacks only its value list
\* is still listed among the services with the enum, and a skipped fragment
\* still counts when the group is classified as all-enum or mixed.)
C6_MalformedSkippedInLists ==
  /\ SkippedInComparison
  /\ SkippedNeverThrows
  /\ \A i \in 1..Len(errors) :
       errors[i].code = "ENUM_MISMATCH_TYPE" =>
         errors[i].text = ExpectedKindText(definitions, errors[i].name)

\* An all-enum name was compared, and a mismatch reported, while one of its
\* fragments has no service name.
C6_Witness ==
  /\ MismatchReported
  /\ \E k \in Range(PositionsOf(definitions, GroupedName)) : ~HasService(definitions, k)

\* A type name for which the rule has an error to report.
Inconsistent(doc, name) ==
  \/ MixedKind(doc, name)
  \/ AllEnum(doc, name) /\ HasValueMismatch(doc, name)

\* C7: the rule always runs to its end, examines every type name once and
\* reports exactly one error for each inconsistent type name (mixed kinds,
\* or all enums with differing values) and none for any other, whatever
\* other type names the document holds.
C7_EveryGroupExaminedOnce ==
  Terminated =>
    /\ pc = "done"
    /\ g = Len(definitionsByName) + 1
    /\ Len(errors) = Cardinality({ n \in NamesIn(definitions) : Inconsistent(definitions, n) })
    /\ \A n \in NamesIn(definitions) :
         Cardinality({ i \in 1..Len(errors) : errors[i].name = n }) =
           (IF Inconsistent(definitions, n) THEN 1 ELSE 0)

\* C8: no ENUM_MISMATCH_TYPE error is built from the first element of an
\* empty list of services with the enum: undefined is never handed to
\* logServiceAndType.
C8_FirstServiceGuarded ==
  \A i \in 1..Len(errors) :
    errors[i].code = "ENUM_MISMATCH_TYPE" => errors[i].logged # Undefined

\* C9: a second call of the rule on the same document ends as the first did
\* and reports the same errors, and no step of the rule changes a
\* definition of the document (the declared order of its values included).
C9_Idempotent ==
  /\ []((run = 2 /\ Terminated) => (pc = firstRun.pc /\ errors = firstRun.errors))
  /\ [][definitions' = definitions]_vars

\* A second call has ended with an error reported, on a document whose
\* compared values were declared out of order.
C9_Witness ==
  /\ run = 2
  /\ pc = "done"
  /\ errors # <<>>
  /\ \E k \in 1..Len(definitions) :
       /\ HasService(definitions, k) /\ HasValues(definitions, k)
       /\ definitions[k].values # Sort(definitions[k].values)

\* C10: once the definitions are grouped, every definition is in exactly
\* one group, the one keyed by its type name, the definitions of a group
\* are in input order, and an empty document gives no group and no error.
C10_GroupingPartitionsInput ==
  pc # "group" =>
    /\ \A k \in 1..Len(definitions) :
         \E e \in 1..Len(definitionsByName) :
           /\ definitionsByName[e].key = definitions[k].name
           /\ Occurrences(definitionsByName[e].items, k) = 1
           /\ \A o \in 1..Len(definitionsByName) :
                o # e => Occurrences(definitionsByName[o].items, k) = 0
    /\ \A e \in 1..Len(definitionsByName) :
         LET items == definitionsByName[e].items IN
         /\ \A j \in 1..Len(items) : definitions[items[j]].name = definitionsByName[e].key
         /\ \A i, j \in 1..Len(items) : i < j => items[i] < items[j]
    /\ definitions = <<>> => (definitionsByName = <<>> /\ errors = <<>>)

====
